---- MODULE Spec2Model ----
(***************************************************************************)
(* Model of the passkey wallet starter app.                                *)
(*                                                                         *)
(* Three specifications share this module:                                 *)
(*   Spec         the session lifecycle: the secure store behind           *)
(*                WalletService, the welcome screen's two mount effects,   *)
(*                the wallet SDK's connection state and the home screen's  *)
(*                protected route and disconnect handler;                  *)
(*   SpecConfirm  the transfer form and the confirm screen's               *)
(*                build / sign-and-send / confirm flow;                    *)
(*   SpecCalls    single calls of the service and utility functions, one   *)
(*                call per behaviour, the arguments drawn from bounded     *)
(*                sets.                                                    *)
(*                                                                         *)
(* Time is counted in days: Date.now() is the variable clock.              *)
(* A text (an error message, a displayed string) is a sequence of words;   *)
(* String.includes is a search for a contiguous run of words.              *)
(***************************************************************************)
EXTENDS Integers, Sequences, FiniteSets, TLC

VARIABLES
    \* ---- session lifecycle
    clock,            \* Date.now(), in days
    store,            \* SecureStore item WALLET_SESSION: NoRecord or a session
    wallet,           \* useWallet(): isConnected, isConnecting, smartWalletPubkey
    route,            \* the screen expo-router shows: "/" or "/home"
    checkingSession,  \* WelcomeScreen state
    chk,              \* WelcomeScreen.checkExistingSession in flight
    sn,               \* WelcomeScreen.saveSessionAndNavigate in flight
    disconnecting,    \* HomeScreen state
    dis,              \* HomeScreen.handleDisconnect in flight
    \* ---- transfer form and confirm screen
    screen,           \* "home", "transfer" or "confirm"
    request,          \* the TransactionRequest passed as route param
    transactionStatus,
    signature,
    error,
    isSubmitting,
    cf,               \* the runs of ConfirmScreen.handleConfirmAndSign
    hist,             \* history of the current request: attempts and outcomes
    \* ---- single calls of service and utility functions
    call,             \* the function called and its arguments
    result            \* what the call returned, once it has

sessionVars == <<clock, store, wallet, route, checkingSession, chk, sn,
                 disconnecting, dis>>
confirmVars == <<screen, request, transactionStatus, signature, error,
                 isSubmitting, cf, hist>>
callVars == <<call, result>>
vars == <<clock, store, wallet, route, checkingSession, chk, sn,
          disconnecting, dis, screen, request, transactionStatus, signature,
          error, isSubmitting, cf, hist, call, result>>

(***************************************************************************)
(* Bounds                                                                  *)
(***************************************************************************)
\* Number of times the clock advances.
MaxTicks == 3
\* Number of distinct wallet public keys the portal can hand out.
NumKeys == 2
\* Transfer requests the form produces in one run.
MaxRequests == 2
\* Confirm & Sign taps followed per request.
MaxAttempts == 2
\* Runs of handleConfirmAndSign that can be in flight together.
MaxFlows == 2

(***************************************************************************)
(* Session store: WalletService                                            *)
(***************************************************************************)
\* 30 * 24 * 60 * 60 * 1000 ms, in days
MAX_SESSION_AGE == 30

\* The clock advances by half the session age at a time, so that ages of
\* 15, 30 and 45 days all occur.
TickStep == MAX_SESSION_AGE \div 2

NoRecord == [none |-> TRUE]
NoKey == 0
Keys == 1..NumKeys

\* WalletSession as written by the welcome screen
NewSession(pubkey, now) ==
    [publicKey |-> pubkey, credentialId |-> "lazorkit",
     createdAt |-> now, lastAccessedAt |-> now]

\* (variant: the refresh also restarts createdAt)
RefreshSessionResetsCreatedAt(session, now) ==
    [session EXCEPT !.lastAccessedAt = now, !.createdAt = now]

\* loadSession: session.lastAccessedAt = Date.now()
RefreshSession(session, now) == [session EXCEPT !.lastAccessedAt = now]

\* isSessionValid(session) at time now
isSessionValid(session, now) ==
    IF session = NoRecord THEN FALSE
    ELSE LET sessionAge == now - session.lastAccessedAt
         IN  IF sessionAge >= MAX_SESSION_AGE THEN FALSE ELSE TRUE


\* A stored item that is not JSON: JSON.parse throws on it
Corrupted == [corrupted |-> TRUE]

\* (variant: a failing re-save makes loadSession return null)
LoadSessionFailsOnResaveError(item, readOk, writeOk, now) ==
    IF ~readOk \/ item = NoRecord \/ item = Corrupted
    THEN [threw |-> FALSE, session |-> NoRecord, store |-> item]
    ELSE IF writeOk
    THEN [threw |-> FALSE, session |-> RefreshSession(item, now),
          store |-> RefreshSession(item, now)]
    ELSE [threw |-> FALSE, session |-> NoRecord, store |-> item]

\* WalletService.loadSession as one call: item is what the store holds, readOk
\* and writeOk tell whether getItemAsync and setItemAsync return or throw. The
\* result is the returned session (NoRecord for null) and the store afterwards.
LoadSession(item, readOk, writeOk, now) ==
    IF ~readOk
    THEN [threw |-> FALSE, session |-> NoRecord, store |-> item]
    ELSE IF item = NoRecord
    THEN [threw |-> FALSE, session |-> NoRecord, store |-> item]
    ELSE IF item = Corrupted
    THEN [threw |-> FALSE, session |-> NoRecord, store |-> item]
    ELSE LET session == RefreshSession(item, now)
         IN  [threw |-> FALSE, session |-> session,
              store |-> IF writeOk THEN session ELSE item]

(***************************************************************************)
(* Wallet SDK state (useWallet)                                            *)
(***************************************************************************)
Disconnected ==
    [isConnected |-> FALSE, isConnecting |-> FALSE, smartWalletPubkey |-> NoKey]

ConnectedAs(pubkey) ==
    [isConnected |-> TRUE, isConnecting |-> FALSE, smartWalletPubkey |-> pubkey]

(***************************************************************************)
(* Welcome screen: the two mount effects                                   *)
(***************************************************************************)
IdleChk ==
    [pc |-> "idle", read |-> NoRecord, session |-> NoRecord, launchAt |-> 0,
     readAt |-> 0, writeOk |-> FALSE, navigated |-> FALSE]

IdleSn ==
    [pc |-> "idle", session |-> NoRecord, saveOk |-> FALSE, navigated |-> FALSE]

\* disconnectCalls, disconnectFailures: the wallet.disconnect() calls the handler
\* has made since the tap, and how many of them threw
IdleDis ==
    [pc |-> "idle", cleared |-> FALSE, disconnected |-> FALSE,
     disconnectCalls |-> 0, disconnectFailures |-> 0]

\* checkExistingSession() called by the mount effect: loadSession is awaiting
\* SecureStore.getItemAsync
StartCheck(now) == [IdleChk EXCEPT !.pc = "reading", !.launchAt = now]

\* saveSessionAndNavigate() called by its effect: with a connected wallet it
\* builds the session and awaits WalletService.saveSession; otherwise it returns
StartSave(w, now) ==
    IF w.isConnected /\ w.smartWalletPubkey # NoKey
    THEN [IdleSn EXCEPT !.pc = "saving",
                        !.session = NewSession(w.smartWalletPubkey, now)]
    ELSE [IdleSn EXCEPT !.pc = "done"]

\* One instance of each effect is followed at a time: the welcome screen is
\* mounted again only when the instances of the previous mount have returned.
EffectsReturned == chk.pc \in {"idle", "done"} /\ sn.pc \in {"idle", "done"}

\* The welcome screen mounts: checkingSession starts true, both effects run.
MountWelcome(w) ==
    /\ route' = "/"
    /\ checkingSession' = TRUE
    /\ chk' = StartCheck(clock)
    /\ sn' = StartSave(w, clock)

\* (variant: router.replace inside the try block, skipped when the save throws)
RouteAfterSaveInsideTry(ok, current) == IF ok THEN "/home" ELSE current

\* router.replace('/home') after the save, whether it succeeded or threw
RouteAfterSave(ok, current) == "/home"

\* router.replace('/home') only for a valid session
RouteAfterCheck(isValid, current) == IF isValid THEN "/home" ELSE current

(***************************************************************************)
(* Actions of the session lifecycle                                        *)
(***************************************************************************)
\* Days pass.
Tick ==
    /\ clock + TickStep <= MaxTicks * TickStep
    /\ clock' = clock + TickStep
    /\ UNCHANGED <<store, wallet, route, checkingSession, chk, sn,
                   disconnecting, dis>>

\* The app process is started (again): pending promises of the previous run
\* are gone, the SDK restores its connection or not, the welcome screen mounts.
Launch ==
    \E restore \in BOOLEAN :
        LET w == IF restore /\ wallet.isConnected
                 THEN ConnectedAs(wallet.smartWalletPubkey)
                 ELSE Disconnected
        IN  /\ wallet' = w
            /\ MountWelcome(w)
            /\ disconnecting' = FALSE
            /\ dis' = IdleDis
            /\ UNCHANGED <<clock, store>>

\* loadSession: SecureStore.getItemAsync returns or throws. With a record,
\* lastAccessedAt is set to Date.now() and setItemAsync is called.
LoadSessionRead ==
    /\ chk.pc = "reading"
    /\ \E ok \in BOOLEAN :
         IF ok /\ store # NoRecord
         THEN chk' = [chk EXCEPT !.pc = "writing", !.read = store,
                                 !.readAt = clock,
                                 !.session = RefreshSession(store, clock)]
         ELSE chk' = [chk EXCEPT !.pc = "validating", !.session = NoRecord]
    /\ UNCHANGED <<clock, store, wallet, route, checkingSession, sn,
                   disconnecting, dis>>

\* loadSession: the re-save lands or throws; either way the session is returned.
LoadSessionWrite ==
    /\ chk.pc = "writing"
    /\ \E ok \in BOOLEAN :
         /\ store' = IF ok THEN chk.session ELSE store
         /\ chk' = [chk EXCEPT !.pc = "validating", !.writeOk = ok]
    /\ UNCHANGED <<clock, wallet, route, checkingSession, sn,
                   disconnecting, dis>>

\* checkExistingSession after loadSession returned: validate, navigate, finally
CheckFinish ==
    /\ chk.pc = "validating"
    /\ LET isValid == isSessionValid(chk.session, clock)
       IN  /\ route' = RouteAfterCheck(isValid, route)
           /\ chk' = [chk EXCEPT !.pc = "done", !.navigated = isValid]
    /\ checkingSession' = FALSE
    /\ UNCHANGED <<clock, store, wallet, sn, disconnecting, dis>>

\* saveSessionAndNavigate: WalletService.saveSession returns or throws
SaveSessionReturn ==
    /\ sn.pc = "saving"
    /\ \E ok \in BOOLEAN :
         /\ store' = IF ok THEN sn.session ELSE store
         /\ route' = RouteAfterSave(ok, route)
         /\ sn' = [sn EXCEPT !.pc = "done", !.saveOk = ok,
                             !.navigated = (RouteAfterSave(ok, route) = "/home")]
    /\ UNCHANGED <<clock, wallet, checkingSession, chk, disconnecting, dis>>

\* handleCreateWallet: the button is rendered once the session check is over
ConnectTap ==
    /\ route = "/"
    /\ ~checkingSession
    /\ ~wallet.isConnecting
    /\ wallet' = [wallet EXCEPT !.isConnecting = TRUE]
    /\ UNCHANGED <<clock, store, route, checkingSession, chk, sn,
                   disconnecting, dis>>

\* wallet.connect() resolves with a wallet or throws. A change of
\* isConnected / smartWalletPubkey re-runs saveSessionAndNavigate while the
\* welcome screen is mounted.
ConnectReturn ==
    /\ wallet.isConnecting
    /\ \E k \in Keys \cup {NoKey} :
         LET w == IF k = NoKey THEN [wallet EXCEPT !.isConnecting = FALSE]
                  ELSE ConnectedAs(k)
             changed == w.isConnected # wallet.isConnected
                        \/ w.smartWalletPubkey # wallet.smartWalletPubkey
         IN  /\ wallet' = w
             /\ IF route = "/" /\ changed
                THEN /\ sn.pc # "saving"
                     /\ sn' = StartSave(w, clock)
                ELSE sn' = sn
    /\ UNCHANGED <<clock, store, route, checkingSession, chk,
                   disconnecting, dis>>

\* HomeScreen render guard: null unless the wallet is connected
HomeScreenRenders(w) == IF ~w.isConnected THEN "nothing" ELSE "wallet"

\* (variant: the effect looks at isConnecting)
ProtectedRouteChecksConnecting(w) == w.isConnecting

\* HomeScreen protected-route effect: its condition for router.replace('/')
ProtectedRouteRedirects(w) == ~w.isConnected

\* HomeScreen protected-route effect: router.replace('/')
HomeRedirect ==
    /\ route = "/home"
    /\ ProtectedRouteRedirects(wallet)
    /\ dis.pc \in {"idle", "done"}
    /\ EffectsReturned
    /\ MountWelcome(wallet)
    /\ UNCHANGED <<clock, store, wallet, disconnecting, dis>>

\* handleDisconnect: tap on Disconnect Wallet
DisconnectTap ==
    /\ route = "/home"
    /\ wallet.isConnected
    /\ ~disconnecting
    /\ dis.pc \in {"idle", "done"}
    /\ disconnecting' = TRUE
    /\ dis' = [IdleDis EXCEPT !.pc = "clearing"]
    /\ UNCHANGED <<clock, store, wallet, route, checkingSession, chk, sn>>

\* WalletService.clearSession returns (record deleted) and the try block calls
\* wallet.disconnect(), or it throws and the catch block calls wallet.disconnect()
ClearSessionReturn ==
    /\ dis.pc = "clearing"
    /\ \E ok \in BOOLEAN :
         /\ store' = IF ok THEN NoRecord ELSE store
         /\ dis' = [dis EXCEPT !.pc = IF ok THEN "disconnecting" ELSE "catch",
                               !.cleared = ok,
                               !.disconnectCalls = @ + 1]
    /\ UNCHANGED <<clock, wallet, route, checkingSession, chk, sn,
                   disconnecting>>

\* wallet.disconnect() resolved: the wallet is disconnected, router.replace('/'),
\* finally setDisconnecting(false)
DisconnectDone ==
    /\ wallet' = Disconnected
    /\ MountWelcome(Disconnected)
    /\ dis' = [dis EXCEPT !.pc = "done", !.disconnected = TRUE]
    /\ disconnecting' = FALSE
    /\ UNCHANGED <<clock, store>>

\* wallet.disconnect() in the try block returns, or throws to the catch block,
\* which calls wallet.disconnect() again
DisconnectReturn ==
    /\ dis.pc = "disconnecting"
    /\ \/ EffectsReturned /\ DisconnectDone
       \/ /\ dis' = [dis EXCEPT !.pc = "catch",
                                 !.disconnectFailures = @ + 1,
                                 !.disconnectCalls = @ + 1]
          /\ UNCHANGED <<clock, store, wallet, route, checkingSession, chk, sn,
                         disconnecting>>

\* catch block: wallet.disconnect() again; a second failure is only logged
DisconnectCatchReturn ==
    /\ dis.pc = "catch"
    /\ \/ EffectsReturned /\ DisconnectDone
       \/ /\ dis' = [dis EXCEPT !.pc = "done", !.disconnectFailures = @ + 1]
          /\ disconnecting' = FALSE
          /\ UNCHANGED <<clock, store, wallet, route, checkingSession, chk, sn>>


(***************************************************************************)
(* Texts: error messages and displayed strings                             *)
(***************************************************************************)
\* String.prototype.includes on word sequences
Includes(text, part) ==
    \E i \in 1..(Len(text) - Len(part) + 1) :
        SubSeq(text, i, i + Len(part) - 1) = part

\* null, undefined and '' (all falsy where the code tests a text)
NoText == <<>>

\* Error thrown by buildUSDCTransfer for a missing recipient token account
NotInitializedMessage ==
    <<"Recipient", "USDC", "token", "account", "not", "initialized", ".",
      "They", "must", "receive", "USDC", "at", "least", "once", "before",
      "you", "can", "send", "to", "them", ".">>

\* The user-facing strings of handleConfirmAndSign's catch block
MsgGeneric == <<"Transaction", "failed", ".", "Please", "try", "again", ".">>
MsgCancelled == <<"Transaction", "signing", "was", "cancelled">>
MsgRecipientNotInitialized ==
    <<"Recipient", "has", "not", "yet", "initialized", "their", "USDC",
      "account", ".", "They", "must", "receive", "USDC", "at", "least",
      "once", "before", "you", "can", "send", "to", "them", ".">>
MsgInsufficient ==
    <<"You", "don't", "have", "enough", "USDC", "to", "complete", "this",
      "transfer">>
MsgNetwork ==
    <<"Network", "error", ".", "Please", "check", "your", "connection", "and",
      "try", "again", ".">>
MsgNotSponsored ==
    <<"Transaction", "could", "not", "be", "sponsored", ".", "Please", "try",
      "again", "later", ".">>

\* Fallbacks for an empty status error
MsgTransactionFailed == <<"Transaction", "failed">>
MsgConfirmationFailed == <<"Transaction", "confirmation", "failed">>

\* Messages the SDK, the relay and the RPC client throw
ErrUserRejected == <<"User", "rejected", "the", "request">>
ErrCancelled == <<"Signing", "was", "cancelled">>
ErrInsufficient == <<"Insufficient", "funds", "for", "transfer">>
ErrNetwork == <<"Network", "request", "failed">>
ErrTimeout == <<"Request", "timeout">>
ErrPaymaster == <<"Paymaster", "unavailable">>
ErrRelayRejected == <<"Transaction", "rejected", "by", "relay">>
ErrOther == <<"Transaction", "simulation", "failed">>
ErrConfirmTimeout ==
    <<"Transaction", "was", "not", "confirmed", "in", "30", ".", "00",
      "seconds">>

DeriveErrors == {ErrOther}
RpcErrors == {ErrNetwork, ErrTimeout}
SignErrors ==
    {ErrUserRejected, ErrCancelled, ErrInsufficient, ErrNetwork, ErrTimeout,
     ErrPaymaster, ErrRelayRejected, ErrOther, NoText}
ConfirmErrors == {ErrConfirmTimeout, ErrNetwork, NoText}
\* confirmation.value.err of a transaction that failed on chain
OnChainErrs == {"{\"InstructionError\":[0,{\"Custom\":1}]}"}

\* (variant: an unmatched error's own message is shown)
MapErrorShowsRaw(message) ==
    IF Includes(message, <<"User", "rejected">>)
       \/ Includes(message, <<"cancelled">>)
    THEN MsgCancelled
    ELSE IF Includes(message, <<"not", "initialized">>)
    THEN MsgRecipientNotInitialized
    ELSE IF Includes(message, <<"Insufficient">>)
    THEN MsgInsufficient
    ELSE IF Includes(message, <<"Network">>) \/ Includes(message, <<"timeout">>)
    THEN MsgNetwork
    ELSE IF Includes(message, <<"rejected">>)
            \/ Includes(message, <<"Paymaster">>)
    THEN MsgNotSponsored
    ELSE IF message = NoText THEN MsgGeneric ELSE message

\* handleConfirmAndSign's catch block: the error message to display
MapError(message) ==
    IF Includes(message, <<"User", "rejected">>)
       \/ Includes(message, <<"cancelled">>)
    THEN MsgCancelled
    ELSE IF Includes(message, <<"not", "initialized">>)
    THEN MsgRecipientNotInitialized
    ELSE IF Includes(message, <<"Insufficient">>)
    THEN MsgInsufficient
    ELSE IF Includes(message, <<"Network">>) \/ Includes(message, <<"timeout">>)
    THEN MsgNetwork
    ELSE IF Includes(message, <<"rejected">>)
            \/ Includes(message, <<"Paymaster">>)
    THEN MsgNotSponsored
    ELSE MsgGeneric

(***************************************************************************)
(* SolanaService                                                           *)
(***************************************************************************)
NoStatus == [status |-> "none"]

\* (variant: a thrown timeout is reported as still pending)
ConfirmTransactionPendingOnThrow(sig, outcome, now) ==
    IF outcome.kind = "throw"
    THEN [signature |-> sig, status |-> "pending", confirmations |-> 0,
          submittedAt |-> now]
    ELSE IF outcome.kind = "err"
    THEN [signature |-> sig, status |-> "failed", confirmations |-> 32,
          error |-> <<"Transaction", "failed", ":", outcome.err>>,
          submittedAt |-> now, confirmedAt |-> now]
    ELSE [signature |-> sig, status |-> "confirmed", confirmations |-> 32,
          submittedAt |-> now, confirmedAt |-> now]

\* SolanaService.confirmTransaction: the result of connection.confirmTransaction
\* mapped to a TransactionStatus (timestamps in days: submittedAt, confirmedAt)
ConfirmTransaction(sig, outcome, now) ==
    IF outcome.kind = "throw"
    THEN [signature |-> sig, status |-> "failed", confirmations |-> 0,
          error |-> IF outcome.message # NoText THEN outcome.message
                    ELSE MsgConfirmationFailed,
          submittedAt |-> now]
    ELSE IF outcome.kind = "err"
    THEN [signature |-> sig, status |-> "failed", confirmations |-> 32,
          error |-> <<"Transaction", "failed", ":", outcome.err>>,
          submittedAt |-> now, confirmedAt |-> now]
    ELSE [signature |-> sig, status |-> "confirmed", confirmations |-> 32,
          submittedAt |-> now, confirmedAt |-> now]

\* status.error, undefined when the status carries none
StatusError(status) ==
    IF "error" \in DOMAIN status THEN status.error ELSE NoText

(***************************************************************************)
(* One run of ConfirmScreen.handleConfirmAndSign                           *)
(***************************************************************************)
IdleFlow ==
    [pc |-> "idle", calls |-> <<>>, returned |-> 0, transaction |-> FALSE,
     txSignature |-> NoText, accountInfo |-> "none", thrown |-> NoText,
     status |-> NoStatus]

\* The flow makes an external call and awaits it at nextpc
Call(f, name, nextpc) == [f EXCEPT !.calls = Append(@, name), !.pc = nextpc]

\* The call the flow awaited has returned
Returned(f) == [f EXCEPT !.returned = @ + 1]

\* (variant: no try block; the error leaves the handler where it is thrown)
ThrowUncaught(f, message) == [f EXCEPT !.pc = "idle", !.thrown = message]

\* An error with this message reaches handleConfirmAndSign's catch block
Throw(f, message) == [f EXCEPT !.pc = "catch", !.thrown = message]

\* handleConfirmAndSign calls buildUSDCTransfer, which derives the sender's
\* associated token account first
StartFlow ==
    Call(IdleFlow, "getAssociatedTokenAddress(sender)", "deriveSender")

AfterDeriveSender(f, out) ==
    IF out.ok
    THEN Call(Returned(f), "getAssociatedTokenAddress(recipient)",
              "deriveRecipient")
    ELSE Throw(f, out.message)

AfterDeriveRecipient(f, out) ==
    IF out.ok
    THEN Call(Returned(f), "getAccountInfo", "getAccountInfo")
    ELSE Throw(f, out.message)

\* (variant: no check of the recipient's token account)
AfterAccountInfoUnchecked(f, out) ==
    IF out.ok
    THEN Call(Returned(Call([Returned(f) EXCEPT !.accountInfo = out.info],
                            "createTransferInstruction", f.pc)),
              "getLatestBlockhash", "getLatestBlockhash")
    ELSE Throw(f, out.message)

\* buildUSDCTransfer after getAccountInfo: a missing account throws; otherwise
\* the transfer instruction is created and the blockhash is fetched
AfterAccountInfo(f, out) ==
    IF out.ok
    THEN IF out.info = "null"
         THEN Throw([Returned(f) EXCEPT !.accountInfo = out.info],
                    NotInitializedMessage)
         ELSE Call(Returned(Call([Returned(f) EXCEPT !.accountInfo = out.info],
                                 "createTransferInstruction", f.pc)),
                   "getLatestBlockhash", "getLatestBlockhash")
    ELSE Throw(f, out.message)

\* (variant: a failed blockhash fetch is swallowed and signing goes on)
AfterBlockhashSwallowsError(f, out) ==
    IF out.ok
    THEN Call([Returned(f) EXCEPT !.transaction = TRUE],
              "signAndSendTransaction", "sign")
    ELSE Call(f, "signAndSendTransaction", "sign")

\* buildUSDCTransfer returns the transaction; wallet.signAndSendTransaction
AfterBlockhash(f, out) ==
    IF out.ok
    THEN Call([Returned(f) EXCEPT !.transaction = TRUE],
              "signAndSendTransaction", "sign")
    ELSE Throw(f, out.message)

\* (variant: the returned signature is not kept)
AfterSignDropsSignature(f, out) ==
    IF out.ok
    THEN Call(Returned(f), "confirmTransaction", "confirm")
    ELSE Throw(f, out.message)

\* setSignature(txSignature); SolanaService.confirmTransaction(txSignature)
AfterSign(f, out) ==
    IF out.ok
    THEN Call([Returned(f) EXCEPT !.txSignature = out.signature],
              "confirmTransaction", "confirm")
    ELSE Throw(f, out.message)

\* SolanaService.confirmTransaction returns its status object
AfterConfirm(f, out, now) ==
    [Returned(f) EXCEPT !.pc = "settle",
                        !.status = ConfirmTransaction(f.txSignature, out, now)]

(***************************************************************************)
(* Confirm screen and transfer form                                        *)
(***************************************************************************)
NoRequest == [id |-> 0]

Flows == 1..MaxFlows

InFlight == {i \in Flows : cf[i].pc # "idle"}

NewHist ==
    [attempts |-> 0, failed |-> 0, confirmed |-> 0, submitted |-> 0,
     failKind |-> "none", thrown |-> NoText, statusError |-> NoText]

\* The signature the relay returns for the n-th submission of request r
SignatureOf(r, n) == <<"sig", r, n>>

\* (variant: the button is also rendered, enabled, while pending)
ConfirmButtonAlsoWhilePending ==
    transactionStatus \in {"preview", "pending"}

\* Confirm & Sign is rendered in the preview state, disabled by isSubmitting
ConfirmButtonEnabled == transactionStatus = "preview" /\ ~isSubmitting

\* (variant: Try Again is also offered after a confirmed transfer)
TryAgainAlsoWhenConfirmed == transactionStatus \in {"failed", "confirmed"}

\* Try Again is rendered in the failed state
TryAgainShown == transactionStatus = "failed"

\* Back to Home / Cancel is rendered in every state but pending
BackToHomeShown == transactionStatus \in {"preview", "confirmed", "failed"}

InitConfirmVars ==
    /\ screen = "home"
    /\ request = NoRequest
    /\ transactionStatus = "preview"
    /\ signature = NoText
    /\ error = NoText
    /\ isSubmitting = FALSE
    /\ cf = [i \in Flows |-> IdleFlow]
    /\ hist = NewHist

\* No function call is followed on its own
NoCall == [fn |-> "none"]
NotReturned == [returned |-> FALSE]
InitCallVars == call = NoCall /\ result = NotReturned

\* HomeScreen: Send USDC pushes the transfer form
OpenTransfer ==
    /\ screen = "home"
    /\ screen' = "transfer"
    /\ UNCHANGED <<request, transactionStatus, signature, error, isSubmitting,
                   cf, hist>>

\* TransferScreen.handleReviewTransaction with valid inputs: a new request is
\* pushed to a freshly mounted confirm screen
ReviewTransaction ==
    /\ screen = "transfer"
    /\ request.id < MaxRequests
    /\ request' = [id |-> request.id + 1]
    /\ screen' = "confirm"
    /\ transactionStatus' = "preview"
    /\ signature' = NoText
    /\ error' = NoText
    /\ isSubmitting' = FALSE
    /\ cf' = [i \in Flows |-> IdleFlow]
    /\ hist' = NewHist

\* handleConfirmAndSign up to its first await
ConfirmTap ==
    /\ screen = "confirm"
    /\ ConfirmButtonEnabled
    /\ hist.attempts < MaxAttempts
    /\ \E i \in Flows :
         /\ cf[i].pc = "idle"
         /\ \A j \in Flows : j < i => cf[j].pc # "idle"
         /\ cf' = [cf EXCEPT ![i] = StartFlow]
    /\ isSubmitting' = TRUE
    /\ transactionStatus' = "pending"
    /\ hist' = [hist EXCEPT !.attempts = @ + 1]
    /\ UNCHANGED <<screen, request, signature, error>>

\* The continuation of flow i after an await leaves it as g: the catch block or
\* the code after confirmTransaction runs to the end of the handler (finally
\* included); otherwise the flow waits for its next call.
Continue(i, g) ==
    IF g.pc = "catch"
    THEN /\ transactionStatus' = "failed"
         /\ error' = MapError(g.thrown)
         /\ isSubmitting' = FALSE
         /\ cf' = [cf EXCEPT ![i] = [g EXCEPT !.pc = "idle"]]
         /\ hist' = [hist EXCEPT !.failed = @ + 1, !.failKind = "thrown",
                                 !.thrown = g.thrown]
         /\ UNCHANGED <<screen, request, signature>>
    ELSE IF g.pc = "settle"
    THEN /\ IF g.status.status = "confirmed"
            THEN /\ transactionStatus' = "confirmed"
                 /\ error' = error
                 /\ hist' = [hist EXCEPT !.confirmed = @ + 1]
            ELSE /\ transactionStatus' = "failed"
                 /\ error' = IF StatusError(g.status) # NoText
                             THEN StatusError(g.status)
                             ELSE MsgTransactionFailed
                 /\ hist' = [hist EXCEPT !.failed = @ + 1,
                                         !.failKind = "status",
                                         !.statusError = StatusError(g.status)]
         /\ isSubmitting' = FALSE
         /\ cf' = [cf EXCEPT ![i] = [g EXCEPT !.pc = "idle"]]
         /\ UNCHANGED <<screen, request, signature>>
    ELSE /\ cf' = [cf EXCEPT ![i] = g]
         /\ signature' = IF g.pc = "confirm" THEN g.txSignature ELSE signature
         /\ hist' = IF g.pc = "confirm"
                    THEN [hist EXCEPT !.submitted = @ + 1]
                    ELSE hist
         /\ UNCHANGED <<screen, request, transactionStatus, error,
                        isSubmitting>>

Ok == [ok |-> TRUE]
Failures(messages) == {[ok |-> FALSE, message |-> m] : m \in messages}

DeriveSenderReturn ==
    \E i \in Flows, out \in {Ok} \cup Failures(DeriveErrors) :
        /\ cf[i].pc = "deriveSender"
        /\ Continue(i, AfterDeriveSender(cf[i], out))

DeriveRecipientReturn ==
    \E i \in Flows, out \in {Ok} \cup Failures(DeriveErrors) :
        /\ cf[i].pc = "deriveRecipient"
        /\ Continue(i, AfterDeriveRecipient(cf[i], out))

AccountInfoReturn ==
    \E i \in Flows,
       out \in {[ok |-> TRUE, info |-> "account"], [ok |-> TRUE, info |-> "null"]}
                 \cup Failures(RpcErrors) :
        /\ cf[i].pc = "getAccountInfo"
        /\ Continue(i, AfterAccountInfo(cf[i], out))

BlockhashReturn ==
    \E i \in Flows, out \in {Ok} \cup Failures(RpcErrors) :
        /\ cf[i].pc = "getLatestBlockhash"
        /\ Continue(i, AfterBlockhash(cf[i], out))

SignReturn ==
    \E i \in Flows,
       out \in {[ok |-> TRUE,
                 signature |-> SignatureOf(request.id, hist.submitted + 1)]}
                 \cup Failures(SignErrors) :
        /\ cf[i].pc = "sign"
        /\ Continue(i, AfterSign(cf[i], out))

ConfirmReturn ==
    \E i \in Flows,
       out \in {[kind |-> "ok"]}
                 \cup {[kind |-> "err", err |-> e] : e \in OnChainErrs}
                 \cup {[kind |-> "throw", message |-> m] : m \in ConfirmErrors} :
        /\ cf[i].pc = "confirm"
        /\ Continue(i, AfterConfirm(cf[i], out, clock))

\* (variant: the previous error is kept when going back to the preview)
AfterTryAgainKeepsError ==
    [transactionStatus |-> "preview", signature |-> NoText, error |-> error]

\* handleTryAgain: setTransactionStatus('preview'), setError(null),
\* setSignature(null)
AfterTryAgain ==
    [transactionStatus |-> "preview", signature |-> NoText, error |-> NoText]

\* handleTryAgain
TryAgain ==
    /\ screen = "confirm"
    /\ TryAgainShown
    /\ transactionStatus' = AfterTryAgain.transactionStatus
    /\ signature' = AfterTryAgain.signature
    /\ error' = AfterTryAgain.error
    /\ UNCHANGED <<screen, request, isSubmitting, cf, hist>>

\* handleBackToHome: router.replace('/home')
BackToHome ==
    /\ screen = "confirm"
    /\ BackToHomeShown
    /\ screen' = "home"
    /\ UNCHANGED <<request, transactionStatus, signature, error, isSubmitting,
                   cf, hist>>

\* The Solana Explorer page of a transaction on Devnet
ExplorerUrl(sig) ==
    <<"https://explorer.solana.com/tx/", sig, "?cluster=devnet">>

\* handleViewOnExplorer: Linking.openURL with the signature's page, nothing
\* without a signature
handleViewOnExplorer(sig) ==
    IF sig # NoText
    THEN [opened |-> TRUE, url |-> ExplorerUrl(sig)]
    ELSE [opened |-> FALSE]

(***************************************************************************)
(* Specification of the session lifecycle                                  *)
(***************************************************************************)
\* First launch of a fresh install: nothing stored, the wallet not connected,
\* the welcome screen mounted.
Init ==
    /\ clock = 0
    /\ store = NoRecord
    /\ wallet = Disconnected
    /\ route = "/"
    /\ checkingSession = TRUE
    /\ chk = StartCheck(0)
    /\ sn = StartSave(Disconnected, 0)
    /\ disconnecting = FALSE
    /\ dis = IdleDis
    /\ InitConfirmVars
    /\ InitCallVars

Next ==
    \/ Tick /\ UNCHANGED confirmVars /\ UNCHANGED callVars
    \/ Launch /\ UNCHANGED confirmVars /\ UNCHANGED callVars
    \/ LoadSessionRead /\ UNCHANGED confirmVars /\ UNCHANGED callVars
    \/ LoadSessionWrite /\ UNCHANGED confirmVars /\ UNCHANGED callVars
    \/ CheckFinish /\ UNCHANGED confirmVars /\ UNCHANGED callVars
    \/ SaveSessionReturn /\ UNCHANGED confirmVars /\ UNCHANGED callVars
    \/ ConnectTap /\ UNCHANGED confirmVars /\ UNCHANGED callVars
    \/ ConnectReturn /\ UNCHANGED confirmVars /\ UNCHANGED callVars
    \/ HomeRedirect /\ UNCHANGED confirmVars /\ UNCHANGED callVars
    \/ DisconnectTap /\ UNCHANGED confirmVars /\ UNCHANGED callVars
    \/ ClearSessionReturn /\ UNCHANGED confirmVars /\ UNCHANGED callVars
    \/ DisconnectReturn /\ UNCHANGED confirmVars /\ UNCHANGED callVars
    \/ DisconnectCatchReturn /\ UNCHANGED confirmVars /\ UNCHANGED callVars

Spec == Init /\ [][Next]_vars

\* A step of the session lifecycle that is not a user's: it leaves the confirm
\* screen and the followed call alone
SessionStep(A) == A /\ UNCHANGED confirmVars /\ UNCHANGED callVars

\* Every awaited call returns or throws in the end (SecureStore, the wallet
\* SDK), and a mounted screen's effect runs; user taps, launches and the
\* passing of days are not forced.
SessionFairness ==
    /\ WF_vars(SessionStep(LoadSessionRead))
    /\ WF_vars(SessionStep(LoadSessionWrite))
    /\ WF_vars(SessionStep(CheckFinish))
    /\ WF_vars(SessionStep(SaveSessionReturn))
    /\ WF_vars(SessionStep(ConnectReturn))
    /\ WF_vars(SessionStep(HomeRedirect))
    /\ WF_vars(SessionStep(ClearSessionReturn))
    /\ WF_vars(SessionStep(DisconnectReturn))
    /\ WF_vars(SessionStep(DisconnectCatchReturn))

\* The session lifecycle with its calls returning
SpecLive == Init /\ [][Next]_vars /\ SessionFairness


(***************************************************************************)
(* Specification of the transfer form and the confirm screen: the wallet   *)
(* is connected and the home screen shown                                  *)
(***************************************************************************)
InitConfirm ==
    /\ clock = 0
    /\ store = NewSession(1, 0)
    /\ wallet = ConnectedAs(1)
    /\ route = "/home"
    /\ checkingSession = FALSE
    /\ chk = [IdleChk EXCEPT !.pc = "done"]
    /\ sn = [IdleSn EXCEPT !.pc = "done", !.session = NewSession(1, 0),
                           !.saveOk = TRUE, !.navigated = TRUE]
    /\ disconnecting = FALSE
    /\ dis = IdleDis
    /\ InitConfirmVars
    /\ InitCallVars

NextConfirm ==
    \/ OpenTransfer /\ UNCHANGED sessionVars /\ UNCHANGED callVars
    \/ ReviewTransaction /\ UNCHANGED sessionVars /\ UNCHANGED callVars
    \/ ConfirmTap /\ UNCHANGED sessionVars /\ UNCHANGED callVars
    \/ DeriveSenderReturn /\ UNCHANGED sessionVars /\ UNCHANGED callVars
    \/ DeriveRecipientReturn /\ UNCHANGED sessionVars /\ UNCHANGED callVars
    \/ AccountInfoReturn /\ UNCHANGED sessionVars /\ UNCHANGED callVars
    \/ BlockhashReturn /\ UNCHANGED sessionVars /\ UNCHANGED callVars
    \/ SignReturn /\ UNCHANGED sessionVars /\ UNCHANGED callVars
    \/ ConfirmReturn /\ UNCHANGED sessionVars /\ UNCHANGED callVars
    \/ TryAgain /\ UNCHANGED sessionVars /\ UNCHANGED callVars
    \/ BackToHome /\ UNCHANGED sessionVars /\ UNCHANGED callVars

SpecConfirm == InitConfirm /\ [][NextConfirm]_vars

\* A step of a running handleConfirmAndSign: it leaves the session lifecycle
\* and the followed call alone
ConfirmStep(A) == A /\ UNCHANGED sessionVars /\ UNCHANGED callVars

\* Every call handleConfirmAndSign awaits returns or throws in the end; taps
\* are not forced.
ConfirmFairness ==
    /\ WF_vars(ConfirmStep(DeriveSenderReturn))
    /\ WF_vars(ConfirmStep(DeriveRecipientReturn))
    /\ WF_vars(ConfirmStep(AccountInfoReturn))
    /\ WF_vars(ConfirmStep(BlockhashReturn))
    /\ WF_vars(ConfirmStep(SignReturn))
    /\ WF_vars(ConfirmStep(ConfirmReturn))

\* The confirm screen with its external calls returning
SpecConfirmLive == InitConfirm /\ [][NextConfirm]_vars /\ ConfirmFairness

(***************************************************************************)
(* JavaScript numbers: IEEE-754 doubles with a 53-bit significand.         *)
(* A natural number is the sequence of its decimal digits, least           *)
(* significant first (0 is the empty sequence), so that the significands   *)
(* and the minor-unit amounts keep all their digits.                       *)
(***************************************************************************)
RECURSIVE TimesCarry(_, _, _)
TimesCarry(n, f, carry) ==
    IF n = <<>>
    THEN IF carry = 0 THEN <<>>
         ELSE <<carry % 10>> \o TimesCarry(<<>>, f, carry \div 10)
    ELSE LET v == f * Head(n) + carry
         IN  <<v % 10>> \o TimesCarry(Tail(n), f, v \div 10)

\* n * f for a small factor f
Times(n, f) == TimesCarry(n, f, 0)

\* n without leading zeros
Stripped(n) ==
    LET used == {i \in 1..Len(n) : n[i] # 0}
    IN  SubSeq(n, 1, IF used = {} THEN 0
                     ELSE CHOOSE i \in used : \A j \in used : j <= i)

RECURSIVE DividedFrom(_, _, _, _)
\* Long division by a small divisor, from digit i down with remainder rem
DividedFrom(n, g, i, rem) ==
    IF i = 0 THEN <<>>
    ELSE LET v == 10 * rem + n[i]
         IN  DividedFrom(n, g, i - 1, v % g) \o <<v \div g>>

\* floor(n / g) for a small divisor g
Divided(n, g) == Stripped(DividedFrom(n, g, Len(n), 0))

RECURSIVE Inc(_)
\* n + 1
Inc(n) ==
    IF n = <<>> THEN <<1>>
    ELSE IF Head(n) < 9 THEN <<Head(n) + 1>> \o Tail(n)
    ELSE <<0>> \o Inc(Tail(n))

IsOdd(n) == n # <<>> /\ n[1] % 2 = 1

\* floor(n / 2)
Half(n) == Divided(n, 2)

\* a < b
Less(a, b) ==
    IF Len(a) # Len(b) THEN Len(a) < Len(b)
    ELSE \E i \in 1..Len(a) :
             a[i] < b[i] /\ \A j \in (i + 1)..Len(a) : a[j] = b[j]

\* Shifts are made 20 bits at a time
ShiftStep == 20
TwoToShiftStep == 2 ^ ShiftStep

RECURSIVE TwiceTimes(_, _)
\* n * 2^k
TwiceTimes(n, k) ==
    IF k >= ShiftStep
    THEN TwiceTimes(Times(n, TwoToShiftStep), k - ShiftStep)
    ELSE Times(n, 2 ^ k)

RECURSIVE HalfTimes(_, _)
\* floor(n / 2^k)
HalfTimes(n, k) ==
    IF k >= ShiftStep
    THEN HalfTimes(Divided(n, TwoToShiftStep), k - ShiftStep)
    ELSE Divided(n, 2 ^ k)

\* floor(n / 10^d), and whether the division is exact
DropDigits(n, d) == SubSeq(n, d + 1, Len(n))
LowDigitsZero(n, d) == \A i \in 1..d : i <= Len(n) => n[i] = 0

\* n * 10^z
AppendZeros(n, z) == IF n = <<>> THEN <<>> ELSE [i \in 1..z |-> 0] \o n

\* Bits of the significand of a double
SignificandBits == 53
TwoToSignificandBits == TwiceTimes(<<1>>, SignificandBits)
TwoToSignificandBitsPlusOne == TwiceTimes(<<1>>, SignificandBits + 1)

\* Largest shift looked at when a significand is scaled
MaxShift == 96

\* Round to nearest, ties to even: q2 holds the significand followed by one
\* more bit, sticky tells whether anything non-zero was cut off below it.
RoundHalfEven(q2, sticky) ==
    LET base == Half(q2)
    IN  IF ~IsOdd(q2) THEN base
        ELSE IF sticky THEN Inc(base)
        ELSE IF IsOdd(base) THEN Inc(base)
        ELSE base

\* A number is m * 2^e with m below 2^53 (m = 2^53 stands for 2^52 * 2^(e+1))
ZeroNumber == [m |-> <<>>, e |-> 0]

\* The least k for which floor(n * 2^k / 10^d) has 54 bits
ScaleUp(n, d) ==
    LET k == Cardinality({j \in 0..MaxShift :
                 Less(DropDigits(TwiceTimes(n, j), d), TwoToSignificandBits)})
        x == TwiceTimes(n, k)
    IN  [q2 |-> DropDigits(x, d), sticky |-> ~LowDigitsZero(x, d), k |-> k]

\* parseFloat of the decimal text of n / 10^d: the nearest double
ParseFloat(n, d) ==
    IF n = <<>> THEN ZeroNumber
    ELSE LET s == ScaleUp(n, d)
         IN  [m |-> RoundHalfEven(s.q2, s.sticky), e |-> 1 - s.k]

\* The least j for which floor(p / 2^j) has at most 54 bits
ScaleDown(p) ==
    LET j == Cardinality({i \in 0..MaxShift :
                 ~Less(HalfTimes(p, i), TwoToSignificandBitsPlusOne)})
        q2 == HalfTimes(p, j)
    IN  [q2 |-> q2, sticky |-> TwiceTimes(q2, j) # p, j |-> j]

\* amount * 1_000_000: the exact product rounded to the nearest double
TimesMillion(x) ==
    IF x.m = <<>> THEN ZeroNumber
    ELSE LET s == ScaleDown(AppendZeros(x.m, 6))
         IN  [m |-> RoundHalfEven(s.q2, s.sticky), e |-> x.e + s.j + 1]

\* Math.round(x) for x >= 0: floor(x + 1/2), as a natural number
MathRound(x) ==
    IF x.m = <<>> THEN <<>>
    ELSE IF x.e >= 0 THEN TwiceTimes(x.m, x.e)
    ELSE Half(Inc(HalfTimes(x.m, (-x.e) - 1)))

\* formatUSDCAmountToLamports(amount)
formatUSDCAmountToLamports(amount) == MathRound(TimesMillion(amount))

(***************************************************************************)
(* ValidationUtils: addresses                                              *)
(* An address text is described by what the code looks at: its length,     *)
(* whether it is only whitespace, whether all its characters are base58    *)
(* characters, and to how many bytes it then decodes.                      *)
(***************************************************************************)
MIN_ADDRESS_LENGTH == 32
MAX_ADDRESS_LENGTH == 44
PUBLIC_KEY_LENGTH == 32

\* new PublicKey(address): bs58 decoding throws on a character outside the
\* alphabet, the constructor throws unless 32 bytes come out
PublicKeyThrows(address) ==
    address.kind # "base58" \/ address.bytes # PUBLIC_KEY_LENGTH

\* (variant: the upper length bound is exclusive)
isValidSolanaAddressBelowMax(address) ==
    IF address.length = 0 \/ address.kind = "blank"
    THEN [valid |-> FALSE, error |-> "Recipient address is required"]
    ELSE IF address.length < MIN_ADDRESS_LENGTH
            \/ address.length >= MAX_ADDRESS_LENGTH
    THEN [valid |-> FALSE, error |-> "Invalid Solana address format"]
    ELSE IF PublicKeyThrows(address)
    THEN [valid |-> FALSE, error |-> "Invalid Solana address format"]
    ELSE [valid |-> TRUE]

\* isValidSolanaAddress(address)
isValidSolanaAddress(address) ==
    IF address.length = 0 \/ address.kind = "blank"
    THEN [valid |-> FALSE, error |-> "Recipient address is required"]
    ELSE IF address.length < MIN_ADDRESS_LENGTH
            \/ address.length > MAX_ADDRESS_LENGTH
    THEN [valid |-> FALSE, error |-> "Invalid Solana address format"]
    ELSE IF PublicKeyThrows(address)
    THEN [valid |-> FALSE, error |-> "Invalid Solana address format"]
    ELSE [valid |-> TRUE]

(***************************************************************************)
(* FormattingUtils: a string is the sequence of its characters             *)
(***************************************************************************)
Min(a, b) == IF a <= b THEN a ELSE b
Max(a, b) == IF a >= b THEN a ELSE b

\* String.prototype.slice(start, end): a negative index counts from the end
SliceIndex(i, len) == IF i < 0 THEN Max(len + i, 0) ELSE Min(i, len)
Slice(str, start, end) ==
    SubSeq(str, SliceIndex(start, Len(str)) + 1, SliceIndex(end, Len(str)))

Ellipsis == <<".", ".", ".">>

\* truncateAddress(address, startChars, endChars)
truncateAddress(address, startChars, endChars) ==
    IF address = <<>> THEN <<>>
    ELSE IF Len(address) <= startChars + endChars THEN address
    ELSE LET start == Slice(address, 0, startChars)
             end == Slice(address, -endChars, Len(address))
         IN  start \o Ellipsis \o end

(***************************************************************************)
(* Specification of single calls: the arguments of one call are drawn in   *)
(* the initial state, the call returns in one step                         *)
(***************************************************************************)
Returns(value) == [returned |-> TRUE, threw |-> FALSE, value |-> value]

\* What connection.confirmTransaction can do: return with value.err null,
\* return with an on-chain error, or throw
ConfirmOutcomes ==
    {[kind |-> "ok"]}
        \cup {[kind |-> "err", err |-> e] : e \in OnChainErrs}
        \cup {[kind |-> "throw", message |-> m] : m \in ConfirmErrors}

ConfirmTransactionCalls ==
    {[fn |-> "confirmTransaction", signature |-> SignatureOf(r, 1),
      outcome |-> out, now |-> t] :
        r \in 1..MaxRequests, out \in ConfirmOutcomes,
        t \in {n * TickStep : n \in 0..MaxTicks}}

\* SolanaService.confirmTransaction(signature) returns
ConfirmTransactionReturn ==
    /\ call.fn = "confirmTransaction"
    /\ ~result.returned
    /\ result' = Returns(ConfirmTransaction(call.signature, call.outcome,
                                            call.now))
    /\ UNCHANGED call

\* Ages around the expiry, in days
SessionAges ==
    {0, MAX_SESSION_AGE - 1, MAX_SESSION_AGE, MAX_SESSION_AGE + 1}

\* Sessions as the store holds them: created on day 0, last accessed later
StoredSessions ==
    {RefreshSession(NewSession(k, 0), n * TickStep) :
        k \in Keys, n \in 0..MaxTicks}

IsSessionValidCalls ==
    {[fn |-> "isSessionValid", session |-> NoRecord, now |-> n * TickStep] :
        n \in 0..MaxTicks}
    \cup {[fn |-> "isSessionValid", session |-> ss,
           now |-> ss.lastAccessedAt + age] :
              ss \in StoredSessions, age \in SessionAges}

\* WalletService.isSessionValid(session) returns
IsSessionValidReturn ==
    /\ call.fn = "isSessionValid"
    /\ ~result.returned
    /\ result' = Returns(isSessionValid(call.session, call.now))
    /\ UNCHANGED call

\* The natural number written with these digits, most significant first
Natural(text) ==
    Stripped([i \in 1..Len(text) |-> text[Len(text) + 1 - i]])

\* Amounts as typed into the transfer form: whole part and decimals
WholeParts ==
    {<<0>>, <<1>>, <<1, 0>>, <<1, 0, 0>>, <<9, 9, 9, 9, 9, 9>>,
     <<4, 2, 9, 4, 9, 6, 7, 2, 9, 5>>, <<4, 4, 0, 0, 0, 0, 0, 0, 0, 0>>}
Decimals ==
    {<<>>, <<1>>, <<5, 0>>, <<0, 1>>, <<0, 0, 1>>, <<1, 2, 3, 4, 5, 6>>,
     <<0, 0, 0, 0, 0, 1>>, <<9, 9, 9, 9, 9, 9>>}

FormatCalls ==
    {[fn |-> "formatUSDCAmountToLamports", whole |-> w, decimals |-> f] :
        w \in WholeParts, f \in Decimals}

\* formatUSDCAmountToLamports(parseFloat(amount)) returns
FormatReturn ==
    /\ call.fn = "formatUSDCAmountToLamports"
    /\ ~result.returned
    /\ result' = Returns(formatUSDCAmountToLamports(
                             ParseFloat(Natural(call.whole \o call.decimals),
                                        Len(call.decimals))))
    /\ UNCHANGED call

\* Lengths of the address texts tried: around both bounds
AddressLengths ==
    {0, 1, MIN_ADDRESS_LENGTH - 1, MIN_ADDRESS_LENGTH, MIN_ADDRESS_LENGTH + 1,
     MAX_ADDRESS_LENGTH - 1, MAX_ADDRESS_LENGTH, MAX_ADDRESS_LENGTH + 1}

\* The byte lengths a base58 text of n characters can decode to: n bytes when
\* every character is '1', and no fewer than the bytes of 58^(n-1)
\* (log 58 / log 256 = 0.7322...)
DecodedLengths(n) == {b \in 1..n : b >= ((n - 1) * 7322) \div 10000 + 1}

AddressTexts ==
    {[length |-> 0, kind |-> "empty", bytes |-> 0]}
    \cup {[length |-> n, kind |-> k, bytes |-> 0] :
             n \in AddressLengths \ {0}, k \in {"blank", "other"}}
    \cup UNION {{[length |-> n, kind |-> "base58", bytes |-> b] :
                    b \in DecodedLengths(n)
                          \cap (PUBLIC_KEY_LENGTH - 1)..(PUBLIC_KEY_LENGTH + 1)} :
                 n \in AddressLengths \ {0}}
    \cup {[length |-> 1, kind |-> "base58", bytes |-> 1]}

AddressCalls ==
    {[fn |-> "isValidSolanaAddress", address |-> a] : a \in AddressTexts}

\* isValidSolanaAddress(address) returns
AddressReturn ==
    /\ call.fn = "isValidSolanaAddress"
    /\ ~result.returned
    /\ result' = Returns(isValidSolanaAddress(call.address))
    /\ UNCHANGED call

\* Longest string and largest startChars / endChars tried
MaxStringLength == 6
MaxChars == 3

Letters == <<"a", "b", "c", "d", "e", "f", "g", "h", "i", "j">>

TruncateCalls ==
    {[fn |-> "truncateAddress", address |-> SubSeq(Letters, 1, n),
      startChars |-> sc, endChars |-> ec] :
        n \in 0..MaxStringLength, sc \in 0..MaxChars, ec \in 0..MaxChars}

\* truncateAddress(address, startChars, endChars) returns
TruncateReturn ==
    /\ call.fn = "truncateAddress"
    /\ ~result.returned
    /\ result' = Returns(truncateAddress(call.address, call.startChars,
                                         call.endChars))
    /\ UNCHANGED call

LoadSessionCalls ==
    {[fn |-> "loadSession", item |-> item, readOk |-> r, writeOk |-> w,
      now |-> item.lastAccessedAt + age] :
        item \in StoredSessions, r \in BOOLEAN, w \in BOOLEAN,
        age \in {TickStep, MAX_SESSION_AGE}}
    \cup {[fn |-> "loadSession", item |-> item, readOk |-> r, writeOk |-> w,
           now |-> TickStep] :
              item \in {NoRecord, Corrupted}, r \in BOOLEAN, w \in BOOLEAN}

\* The return of a call that can end by throwing
ReturnsOrThrows(r) == [returned |-> TRUE, threw |-> r.threw, value |-> r]

\* WalletService.loadSession() returns
LoadSessionReturn ==
    /\ call.fn = "loadSession"
    /\ ~result.returned
    /\ result' = ReturnsOrThrows(LoadSession(call.item, call.readOk,
                                             call.writeOk, call.now))
    /\ UNCHANGED call

Calls ==
    ConfirmTransactionCalls \cup IsSessionValidCalls \cup LoadSessionCalls
        \cup FormatCalls \cup AddressCalls \cup TruncateCalls

InitCalls ==
    /\ clock = 0
    /\ store = NoRecord
    /\ wallet = Disconnected
    /\ route = "/"
    /\ checkingSession = FALSE
    /\ chk = IdleChk
    /\ sn = IdleSn
    /\ disconnecting = FALSE
    /\ dis = IdleDis
    /\ InitConfirmVars
    /\ call \in Calls
    /\ result = NotReturned

NextCalls ==
    \/ ConfirmTransactionReturn /\ UNCHANGED sessionVars /\ UNCHANGED confirmVars
    \/ IsSessionValidReturn /\ UNCHANGED sessionVars /\ UNCHANGED confirmVars
    \/ LoadSessionReturn /\ UNCHANGED sessionVars /\ UNCHANGED confirmVars
    \/ FormatReturn /\ UNCHANGED sessionVars /\ UNCHANGED confirmVars
    \/ AddressReturn /\ UNCHANGED sessionVars /\ UNCHANGED confirmVars
    \/ TruncateReturn /\ UNCHANGED sessionVars /\ UNCHANGED confirmVars

SpecCalls == InitCalls /\ [][NextCalls]_vars

(***************************************************************************)
(* Claims about the session lifecycle (checked under Spec)                 *)
(***************************************************************************)
\* The launch check of the current mount has finished and had found a record.
LaunchCheckFoundRecord == chk.pc = "done" /\ chk.read # NoRecord

\* C1: when the launch check finds a stored session whose persisted
\* lastAccessedAt is 30 days or more before the launch time, the check does not
\* navigate to /home.
C1_ExpiredSessionShowsWelcome ==
    (/\ LaunchCheckFoundRecord
     /\ chk.launchAt - chk.read.lastAccessedAt >= MAX_SESSION_AGE)
        => ~chk.navigated

\* C2: whenever handleDisconnect finishes with the wallet disconnected, no
\* session record remains in the secure store.
C2_DisconnectDeletesSession ==
    [][(dis.pc # "done" /\ dis'.pc = "done" /\ dis'.disconnected)
           => store' = NoRecord]_vars

\* C3: once a session record exists, no step replaces it by a record with a
\* different createdAt; a new record is written only after the record was
\* deleted.
C3_SessionCreatedOnce ==
    [][(store # NoRecord /\ store' # NoRecord)
           => store'.createdAt = store.createdAt]_vars

\* loadSession's re-save returns to checkExistingSession
LoadSessionWriteStep == chk.pc = "writing" /\ chk'.pc = "validating"

\* The record loadSession read, with lastAccessedAt set to the time of the load
RefreshedRecord ==
    [publicKey |-> chk.read.publicKey, credentialId |-> chk.read.credentialId,
     createdAt |-> chk.read.createdAt, lastAccessedAt |-> chk.readAt]

\* C4 (as stated): every launch that finds a stored session rewrites the stored
\* record with lastAccessedAt set to the time of the load and publicKey,
\* credentialId and createdAt as read.
C4_EveryLaunchRewrites ==
    [][LoadSessionWriteStep => store' = RefreshedRecord]_vars

\* C4 (amended): a launch that finds a stored session rewrites the record as
\* above when the re-save succeeds, and leaves the stored record as it was when
\* the re-save throws.
C4_LaunchRewritesOrKeeps ==
    [][LoadSessionWriteStep =>
          IF chk'.writeOk THEN store' = RefreshedRecord ELSE store' = store]_vars

\* A launch refreshed a record whose lastAccessedAt was older than the load.
C4_Witness ==
    /\ chk.pc = "validating"
    /\ chk.writeOk
    /\ chk.read.lastAccessedAt < chk.readAt
    /\ store.lastAccessedAt = chk.readAt
    /\ store.createdAt = chk.read.createdAt

\* C5: when saveSessionAndNavigate returns from WalletService.saveSession, it
\* has navigated to /home, whether the save succeeded or threw.
C5_SaveNeverBlocksNavigation ==
    [][(sn.pc = "saving" /\ sn'.pc = "done" /\ sn'.session = sn.session)
           => route' = "/home"]_vars

\* The save threw, nothing was stored, and the app is on /home.
C5_Witness ==
    /\ sn.pc = "done"
    /\ sn.session # NoRecord
    /\ ~sn.saveOk
    /\ store = NoRecord
    /\ route = "/home"

\* C13: handleDisconnect calls wallet.disconnect() again only after a new tap:
\* within one run of the handler no wallet.disconnect() call is made once an
\* earlier one has failed.
C13_NoCallReissuedWithoutTap ==
    [][dis'.disconnectCalls > dis.disconnectCalls
           => dis'.disconnectFailures = 0]_vars

\* C16: the home screen renders the wallet information only while the wallet
\* is connected; while it is shown with the wallet not connected it renders
\* nothing and its effect replaces the route with '/': the redirect is the
\* step the home screen takes, and it leads to the welcome screen.
C16_HomeIsProtected ==
    route = "/home" =>
        /\ HomeScreenRenders(wallet) = "wallet" => wallet.isConnected
        /\ ~wallet.isConnected =>
              /\ HomeScreenRenders(wallet) = "nothing"
              /\ ENABLED HomeRedirect
        /\ wallet.isConnected => ~ENABLED HomeRedirect

\* The home screen is shown although the wallet is not connected (a stored
\* session was found valid while the SDK had not restored the connection).
C16_Witness ==
    /\ route = "/home"
    /\ ~wallet.isConnected
    /\ chk.navigated

\* Both effects of the mounted welcome screen have finished, saveSession has
\* stored the session of the connected wallet, and no disconnect has touched
\* the store since.
BothEffectsFinishedAfterSave ==
    /\ chk.pc = "done"
    /\ sn.pc = "done"
    /\ sn.saveOk
    /\ dis.pc = "idle"

\* C22: when checkExistingSession and saveSessionAndNavigate of one mount have
\* both finished and the save succeeded, the stored record has the public key
\* of the session saveSession saved (the connected wallet's), in whatever
\* order their store reads and writes were interleaved.
C22_SavedSessionSurvives ==
    BothEffectsFinishedAfterSave =>
        /\ store # NoRecord
        /\ store.publicKey = sn.session.publicKey

\* A step the user takes: tapping Create Wallet or Disconnect, or starting the
\* app. A start that leaves the same state as the home screen's redirect (the
\* wallet not connected, the welcome screen mounted) is a step the app takes
\* without the user and is not counted.
UserStep == ConnectTap \/ DisconnectTap \/ (Launch /\ ~HomeRedirect)

\* C23: the navigation settles: unless the user keeps launching the app or
\* tapping, from some point on the route no longer changes; the welcome
\* screen and the home screen do not replace each other forever.
C23_NavigationSettles ==
    []<><<UserStep>>_vars \/ <>[][route' = route]_vars


(***************************************************************************)
(* Claims about the confirm screen (checked under SpecConfirm)             *)
(***************************************************************************)
Range(seq) == {seq[n] : n \in 1..Len(seq)}

IsPrefix(s, t) == Len(s) <= Len(t) /\ SubSeq(t, 1, Len(s)) = s

\* The order of external calls the specification gives for one attempt
CallOrder ==
    <<"getAssociatedTokenAddress(sender)",
      "getAssociatedTokenAddress(recipient)",
      "getAccountInfo",
      "createTransferInstruction",
      "getLatestBlockhash",
      "signAndSendTransaction",
      "confirmTransaction">>

\* C6: within one attempt the external calls are made in the fixed order, each
\* only after all earlier ones returned successfully; signAndSendTransaction
\* only with the transaction buildUSDCTransfer returned, confirmTransaction only
\* with the signature signAndSendTransaction returned.
C6_CallsSequential ==
    \A i \in Flows :
        /\ IsPrefix(cf[i].calls, CallOrder)
        /\ Len(cf[i].calls) <= cf[i].returned + 1
        /\ "signAndSendTransaction" \in Range(cf[i].calls) => cf[i].transaction
        /\ "confirmTransaction" \in Range(cf[i].calls)
               => cf[i].txSignature # NoText

\* An attempt made all seven calls.
C6_Witness == \E i \in Flows : cf[i].calls = CallOrder /\ cf[i].returned = 7

\* C7: when getAccountInfo returns null for the recipient's token account, the
\* attempt ends at once: the not-initialized error is thrown, no instruction is
\* built, no blockhash fetched, no signature requested, and the screen is in
\* 'failed' showing the recipient-not-initialized message.
C7_MissingRecipientAccountFails ==
    [][\A i \in Flows :
          (cf[i].pc = "getAccountInfo" /\ cf'[i].accountInfo = "null")
              => /\ cf'[i].pc = "idle"
                 /\ cf'[i].thrown = NotInitializedMessage
                 /\ cf'[i].calls = SubSeq(CallOrder, 1, 3)
                 /\ transactionStatus' = "failed"
                 /\ error' = MsgRecipientNotInitialized
                 /\ ~isSubmitting']_vars

\* The screen shows the recipient-not-initialized failure.
C7_Witness ==
    /\ transactionStatus = "failed"
    /\ error = MsgRecipientNotInitialized
    /\ \E i \in Flows :
          /\ cf[i].accountInfo = "null"
          /\ cf[i].calls = SubSeq(CallOrder, 1, 3)

\* C8 (as stated): for one request handleConfirmAndSign runs at most once.
C8_AtMostOneRoundTrip == hist.attempts <= 1

\* C8 (amended): for one request a further round trip starts only after every
\* earlier one ended in 'failed' (and Try Again was tapped); after a round trip
\* that ended in 'confirmed' the request is never run again.
C8_RetryOnlyAfterFailure ==
    /\ hist.attempts = hist.failed + hist.confirmed + Cardinality(InFlight)
    /\ hist.confirmed <= 1
    /\ hist.confirmed = 1 => (InFlight = {} /\ transactionStatus = "confirmed")

\* A second attempt, made after a failed one, was confirmed.
C8_Witness ==
    hist.attempts = 2 /\ hist.failed = 1 /\ hist.confirmed = 1

\* C9: at most one handleConfirmAndSign is in flight; isSubmitting is true
\* exactly while one is, and the screen is then in 'pending', where Confirm &
\* Sign is not rendered.
C9_OneFlowInFlight ==
    /\ Cardinality(InFlight) <= 1
    /\ isSubmitting <=> InFlight # {}
    /\ isSubmitting => transactionStatus = "pending"

\* A flow waits for the signature while isSubmitting is true.
C9_Witness == isSubmitting /\ \E i \in Flows : cf[i].pc = "sign"

FixedMessages ==
    {MsgCancelled, MsgRecipientNotInitialized, MsgInsufficient, MsgNetwork,
     MsgNotSponsored, MsgGeneric}

\* C10 (as stated): the error of every failed attempt is one of the six fixed
\* strings.
C10_OnlyFixedStrings == transactionStatus = "failed" => error \in FixedMessages

\* C10 (amended): an attempt that failed by a thrown error shows one of the six
\* fixed strings, chosen by the substrings of the thrown message; an attempt
\* that failed because confirmTransaction returned 'failed' shows that status's
\* own error text.
C10_FixedStringsForThrownErrors ==
    transactionStatus = "failed" =>
        /\ hist.failKind \in {"thrown", "status"}
        /\ hist.failKind = "thrown" =>
              /\ error \in FixedMessages
              /\ (Includes(hist.thrown, <<"User", "rejected">>)
                  \/ Includes(hist.thrown, <<"cancelled">>))
                     => error = MsgCancelled
              /\ error = MsgRecipientNotInitialized
                     => Includes(hist.thrown, <<"not", "initialized">>)
              /\ error = MsgInsufficient
                     => Includes(hist.thrown, <<"Insufficient">>)
              /\ error = MsgNetwork
                     => (Includes(hist.thrown, <<"Network">>)
                         \/ Includes(hist.thrown, <<"timeout">>))
              /\ error = MsgNotSponsored
                     => (Includes(hist.thrown, <<"rejected">>)
                         \/ Includes(hist.thrown, <<"Paymaster">>))
              /\ error = MsgGeneric
                     => \A part \in {<<"User", "rejected">>, <<"cancelled">>,
                                     <<"not", "initialized">>,
                                     <<"Insufficient">>, <<"Network">>,
                                     <<"timeout">>, <<"rejected">>,
                                     <<"Paymaster">>} :
                            ~Includes(hist.thrown, part)
        /\ hist.failKind = "status" =>
              /\ error = hist.statusError
              /\ error # NoText

\* A relay rejection is shown as "could not be sponsored".
C10_Witness ==
    /\ transactionStatus = "failed"
    /\ hist.failKind = "thrown"
    /\ hist.thrown = ErrRelayRejected
    /\ error = MsgNotSponsored


\* The transitions of transactionStatus the specification allows
StatusTransitions ==
    {<<"preview", "pending">>, <<"pending", "confirmed">>,
     <<"pending", "failed">>, <<"failed", "preview">>}

\* C12: a confirm screen is mounted in 'preview'; while it stays mounted,
\* transactionStatus changes only along preview -> pending (a Confirm & Sign
\* tap), pending -> confirmed, pending -> failed and failed -> preview (which
\* also sets signature and error to null); 'confirmed' is never left.
C12_StatusTransitions ==
    [][/\ request' # request => transactionStatus' = "preview"
       /\ (request' = request /\ transactionStatus' # transactionStatus) =>
             /\ <<transactionStatus, transactionStatus'>> \in StatusTransitions
             /\ transactionStatus = "preview" =>
                   hist'.attempts = hist.attempts + 1
             /\ transactionStatus = "failed" =>
                   (signature' = NoText /\ error' = NoText)]_vars

\* Back in 'preview' by Try Again after an attempt that was submitted and
\* failed: the signature and the error are gone.
C12_Witness ==
    /\ transactionStatus = "preview"
    /\ hist.failed = 1
    /\ hist.submitted = 1
    /\ signature = NoText
    /\ error = NoText

\* C21: wallet.signAndSendTransaction returns a signature at most once for one
\* transfer request: after a transfer was submitted the confirm screen never
\* submits the same request again, whatever confirmTransaction reported.
C21_SubmittedAtMostOnce == hist.submitted <= 1

\* C24: every run of handleConfirmAndSign ends: a screen in 'pending' reaches
\* 'confirmed' or 'failed' with isSubmitting false again, and whenever no run
\* is in flight the screen is not in 'pending' and isSubmitting is false.
C24_AttemptTerminates ==
    /\ (transactionStatus = "pending") ~>
           (transactionStatus \in {"confirmed", "failed"} /\ ~isSubmitting)
    /\ [](InFlight = {} =>
             (transactionStatus # "pending" /\ ~isSubmitting))

\* A run has ended in the catch block after signAndSendTransaction threw:
\* the screen shows 'failed' and the button flag is back to false.
C24_Witness ==
    /\ hist.attempts = 1
    /\ InFlight = {}
    /\ transactionStatus = "failed"
    /\ hist.failKind = "thrown"
    /\ hist.thrown \in SignErrors
    /\ ~isSubmitting

\* C25: while the screen shows 'confirmed', signature is set and is the
\* signature signAndSendTransaction returned to the run whose confirmTransaction
\* reported 'confirmed'; View on Explorer opens the page of that signature.
C25_ConfirmedHasItsSignature ==
    transactionStatus = "confirmed" =>
        /\ signature # NoText
        /\ \E i \in Flows :
              /\ cf[i].status.status = "confirmed"
              /\ cf[i].status.signature = signature
              /\ cf[i].txSignature = signature
              /\ "signAndSendTransaction" \in Range(cf[i].calls)
              /\ handleViewOnExplorer(signature) =
                     [opened |-> TRUE, url |-> ExplorerUrl(cf[i].txSignature)]

\* The second submission of a request was confirmed after the first had
\* failed: the screen holds the second signature.
C25_Witness ==
    /\ transactionStatus = "confirmed"
    /\ hist.submitted = 2
    /\ signature = SignatureOf(request.id, 2)

(***************************************************************************)
(* Claims about single calls (checked under SpecCalls)                     *)
(***************************************************************************)
\* The call of fn has returned
CallReturned(fn) == call.fn = fn /\ result.returned

C17_ConfirmedAtOnlyWhenConfirmed ==
    CallReturned("confirmTransaction") =>
        ("confirmedAt" \in DOMAIN result.value
            => result.value.status = "confirmed")

\* C14: isSessionValid returns false for a null session and for a session whose
\* lastAccessedAt is more than 30 days before the current time, and true for
\* every other session, that is for every age of at most 30 days.
C14_ValidUpToThirtyDays ==
    CallReturned("isSessionValid") =>
        (result.value <=>
            (/\ call.session # NoRecord
             /\ call.now - call.session.lastAccessedAt <= MAX_SESSION_AGE))

\* The stored item of the call is a session that getItemAsync returned
LoadedSession ==
    call.readOk /\ call.item # NoRecord /\ call.item # Corrupted

\* C15: loadSession never throws; it returns null when nothing is stored, when
\* the read fails or when the stored data cannot be parsed; otherwise it returns
\* the stored session with lastAccessedAt replaced by the current time, also
\* when the re-save fails, and then the stored record is left as it was.
C15_LoadSessionNeverThrows ==
    CallReturned("loadSession") =>
        /\ ~result.threw
        /\ ~LoadedSession => result.value.session = NoRecord
        /\ LoadedSession =>
              /\ result.value.session # NoRecord
              /\ result.value.session.publicKey = call.item.publicKey
              /\ result.value.session.credentialId = call.item.credentialId
              /\ result.value.session.createdAt = call.item.createdAt
              /\ result.value.session.lastAccessedAt = call.now
              /\ ~call.writeOk => result.value.store = call.item

\* The re-save failed: the refreshed session came back, the store kept the
\* older record.
C15_Witness ==
    /\ CallReturned("loadSession")
    /\ LoadedSession
    /\ ~call.writeOk
    /\ result.value.session.lastAccessedAt = call.now
    /\ result.value.store.lastAccessedAt < call.now

\* Decimal places of the minor unit
USDC_DECIMALS == 6

\* The amount of the call times 1,000,000, for an amount of at most 6 decimals
ExactLamports ==
    Natural(call.whole \o call.decimals
            \o [i \in 1..(USDC_DECIMALS - Len(call.decimals)) |-> 0])

\* C18: for every amount with at most 6 decimal places
\* formatUSDCAmountToLamports returns exactly the amount times 1,000,000
\* (10.50 gives 10,500,000; 0.01 gives 10,000; 100 gives 100,000,000).
C18_ConversionExact ==
    (CallReturned("formatUSDCAmountToLamports")
        /\ Len(call.decimals) <= USDC_DECIMALS)
            => result.value = ExactLamports

\* The text is the base58 encoding of a 32-byte public key
WellFormedAddress(address) ==
    address.kind = "base58" /\ address.bytes = PUBLIC_KEY_LENGTH

\* C19: isValidSolanaAddress rejects the empty and the blank text, every text
\* shorter than 32 or longer than 44 characters and every text that does not
\* decode to a public key; it accepts every well-formed address; the result
\* has an error message exactly when valid is false.
C19_AddressValidation ==
    CallReturned("isValidSolanaAddress") =>
        /\ call.address.kind \in {"empty", "blank"} => ~result.value.valid
        /\ (call.address.length < 32 \/ call.address.length > 44)
              => ~result.value.valid
        /\ ~WellFormedAddress(call.address) => ~result.value.valid
        /\ WellFormedAddress(call.address) => result.value.valid
        /\ "error" \in DOMAIN result.value <=> ~result.value.valid

\* A well-formed address of 44 characters was accepted.
C19_Witness ==
    /\ CallReturned("isValidSolanaAddress")
    /\ call.address.length = 44
    /\ WellFormedAddress(call.address)
    /\ result.value.valid

\* C20: truncateAddress returns the string unchanged when its length does not
\* exceed startChars + endChars; otherwise it returns the first startChars
\* characters, '...' and the last endChars characters, never more than
\* startChars + endChars + 3 characters.
C20_Truncation ==
    CallReturned("truncateAddress") =>
        LET n == Len(call.address)
        IN  IF n <= call.startChars + call.endChars
            THEN result.value = call.address
            ELSE /\ result.value =
                      SubSeq(call.address, 1, call.startChars)
                          \o <<".", ".", ".">>
                          \o SubSeq(call.address, n - call.endChars + 1, n)
                 /\ Len(result.value) <= call.startChars + call.endChars + 3

====
